---- MODULE Spec2Model ----
(***************************************************************************)
(* Model of the solar boat energy simulator (lib/boat_model.py,            *)
(* lib/competition_model.py).                                              *)
(*                                                                         *)
(* Every physical quantity of the program is a Python float.  The model    *)
(* computes with exact rationals <<numerator, denominator>> in lowest      *)
(* terms with a positive denominator, so the arithmetic is that of the     *)
(* real numbers the floats stand for; rounding of the floats is not        *)
(* modelled.  Instants (numpy datetime64) are integer ticks.               *)
(***************************************************************************)
EXTENDS Integers, Sequences, FiniteSets, TLC

VARIABLES boat, battery, last, out, comp

vars == <<boat, battery, last, out, comp>>

----------------------------------------------------------------------------
(* Bounds of the explored inputs.                                          *)

\* requested powers are 2*i W for i in -MaxPower..MaxPower
MaxPower == 3
\* time steps are j*1800 s for j in 1..MaxDt
MaxDt == 3
\* instants of input rows and event windows are the ticks 0..MaxTime
MaxTime == 3

\* timebase=3600 of every naive_energy / naive_power call
Timebase == 3600

----------------------------------------------------------------------------
(* Float arithmetic, as exact rationals.                                   *)

Abs(x) == IF x < 0 THEN -x ELSE x

RECURSIVE GCD(_, _)
GCD(a, b) == IF b = 0 THEN a ELSE GCD(b, a % b)

\* the rational n/d (d # 0) in lowest terms with a positive denominator
R(n, d) ==
    LET g == GCD(Abs(n), Abs(d))
        s == IF d < 0 THEN -1 ELSE 1
    IN  <<(s * n) \div g, Abs(d) \div g>>

RAdd(x, y) == R(x[1] * y[2] + y[1] * x[2], x[2] * y[2])
RSub(x, y) == R(x[1] * y[2] - y[1] * x[2], x[2] * y[2])
RMul(x, y) == R(x[1] * y[1], x[2] * y[2])
RDiv(x, y) == R(x[1] * y[2], x[2] * y[1])
RNeg(x)    == <<-x[1], x[2]>>
RAbs(x)    == <<Abs(x[1]), x[2]>>
RLt(x, y)  == x[1] * y[2] < y[1] * x[2]
RLe(x, y)  == x[1] * y[2] <= y[1] * x[2]
RGt(x, y)  == RLt(y, x)
RGe(x, y)  == RLe(y, x)
Zero       == R(0, 1)

\* the element of a one-element set: binds a computed value once
Only(S) == CHOOSE x \in S : TRUE

----------------------------------------------------------------------------
(* lib/utils.py, after section 4.4 of the specification: the time-power    *)
(* relation, energy = power * dt / timebase, and its inverse.              *)

naive_energy(power, dt, timebase) == RDiv(RMul(power, dt), timebase)

naive_power(energy, dt, timebase) == RDiv(RMul(energy, timebase), dt)

----------------------------------------------------------------------------
(* Battery                                                                 *)

\* Battery.__init__
Battery_init(soc_0, minimum_soc, efficiency, maximum_energy, maximum_power) ==
    [ efficiency     |-> efficiency,
      soc            |-> soc_0,
      minimum_soc    |-> minimum_soc,
      energy         |-> RMul(soc_0, maximum_energy),
      maximum_energy |-> maximum_energy,
      minimum_energy |-> RMul(maximum_energy, minimum_soc),
      maximum_power  |-> maximum_power ]

\* _charge without the clamp at maximum_energy
Battery_charge_noclamp(b, dt, power) ==
    LET energy == naive_energy(power, dt, R(Timebase, 1))
    IN  [ b   |-> [b EXCEPT !.energy = RAdd(b.energy, RMul(energy, b.efficiency))],
          ret |-> power ]

\* _charge that clamps the energy but reports the requested power
Battery_charge_noreport(b, dt, power) ==
    LET energy == naive_energy(power, dt, R(Timebase, 1))
        e1     == RAdd(b.energy, RMul(energy, b.efficiency))
    IN  IF RGt(e1, b.maximum_energy)
        THEN [ b |-> [b EXCEPT !.energy = b.maximum_energy], ret |-> power ]
        ELSE [ b |-> [b EXCEPT !.energy = e1], ret |-> power ]

\* _charge that stores the energy without the efficiency loss
Battery_charge_noloss(b, dt, power) ==
    LET energy == naive_energy(power, dt, R(Timebase, 1))
        e1     == RAdd(b.energy, energy)
    IN  IF RGt(e1, b.maximum_energy)
        THEN LET exceeded_energy == RSub(e1, b.maximum_energy)
                 exceeded_power  == naive_power(exceeded_energy, dt, R(Timebase, 1))
             IN  [ b   |-> [b EXCEPT !.energy = RSub(e1, exceeded_energy)],
                   ret |-> RSub(power, exceeded_power) ]
        ELSE [ b |-> [b EXCEPT !.energy = e1], ret |-> power ]

\* Battery._charge: the battery after the call and the returned power
Battery_charge(b, dt, power) ==
    LET energy == naive_energy(power, dt, R(Timebase, 1))
        e1     == RAdd(b.energy, RMul(energy, b.efficiency))
    IN  IF RGt(e1, b.maximum_energy)
        THEN LET exceeded_energy == RSub(e1, b.maximum_energy)
                 exceeded_power  == naive_power(exceeded_energy, dt, R(Timebase, 1))
             IN  [ b   |-> [b EXCEPT !.energy = RSub(e1, exceeded_energy)],
                   ret |-> RSub(power, exceeded_power) ]
        ELSE [ b |-> [b EXCEPT !.energy = e1], ret |-> power ]

\* _discharge that clamps the energy but reports the requested power
Battery_discharge_noreport(b, dt, power) ==
    LET energy == naive_energy(power, dt, R(Timebase, 1))
        e1     == RSub(b.energy, RMul(energy, b.efficiency))
    IN  IF RLt(e1, b.minimum_energy)
        THEN [ b |-> [b EXCEPT !.energy = b.minimum_energy], ret |-> power ]
        ELSE [ b |-> [b EXCEPT !.energy = e1], ret |-> power ]

\* Battery._discharge: the battery after the call and the returned power
Battery_discharge(b, dt, power) ==
    LET energy == naive_energy(power, dt, R(Timebase, 1))
        e1     == RSub(b.energy, RMul(energy, b.efficiency))
    IN  IF RLt(e1, b.minimum_energy)
        THEN LET exceeded_energy == RSub(b.minimum_energy, e1)
                 exceeded_power  == naive_power(exceeded_energy, dt, R(Timebase, 1))
             IN  [ b   |-> [b EXCEPT !.energy = RAdd(e1, exceeded_energy)],
                   ret |-> RSub(power, exceeded_power) ]
        ELSE [ b |-> [b EXCEPT !.energy = e1], ret |-> power ]

\* Battery.solve, line 108: r is the branch's battery and returned power
Battery_solve_soc(r) ==
    [ b   |-> [r.b EXCEPT !.soc = RDiv(r.b.energy, r.b.maximum_energy)],
      ret |-> r.ret ]

\* Battery.solve: the battery after the call and the returned power
Battery_solve(b, dt, target_power) ==
    IF RGt(target_power, Zero)
    THEN Only({ Battery_solve_soc(c) :
                  c \in { Battery_charge(b, dt, RAbs(target_power)) } })
    ELSE Only({ Battery_solve_soc([ b |-> d.b, ret |-> RNeg(d.ret) ]) :
                  d \in { Battery_discharge(b, dt, RAbs(target_power)) } })

----------------------------------------------------------------------------
(* Inputs                                                                   *)

Powers       == { R(2 * i, 1) : i \in 0..MaxPower }
TargetPowers == { R(2 * i, 1) : i \in (-MaxPower)..MaxPower }
Dts          == { R(1800 * j, 1) : j \in 1..MaxDt }
Efficiencies == { R(1, 2), R(3, 4), R(1, 1) }
MinimumSocs  == { R(0, 1), R(1, 5), R(1, 2) }
InitialSocs  == { R(0, 1), R(1, 5), R(1, 2), R(1, 1) }

Batteries ==
    { Battery_init(s, m, e, R(10, 1), R(500, 1)) :
        <<s, m, e>> \in { t \in InitialSocs \X MinimumSocs \X Efficiencies :
                            RLe(t[2], t[1]) } }

NoBoat == [ none |-> TRUE ]
NoComp == [ pc |-> "none" ]
NoOut  == [ none |-> TRUE ]

----------------------------------------------------------------------------
(* A battery driven through Battery.solve only.                            *)

InitSolve ==
    /\ battery \in Batteries
    /\ boat = NoBoat
    /\ last = [ op |-> "init" ]
    /\ out = NoOut
    /\ comp = NoComp

Solve(dt, target_power) ==
    \E r \in { Battery_solve(battery, dt, target_power) } :
        /\ battery' = r.b
        /\ last' = [ op |-> "solve", dt |-> dt, power |-> target_power,
                     before |-> battery.energy, ret |-> r.ret ]
        /\ UNCHANGED <<boat, out, comp>>

NextSolve == \E dt \in Dts, p \in TargetPowers : Solve(dt, p)

SpecSolve == InitSolve /\ [][NextSolve]_vars

\* C1: after every Battery.solve call of a battery constructed with an initial
\* SOC in [minimum_soc, 1] and an efficiency in (0, 1], the stored energy lies
\* in [minimum_energy, maximum_energy] and soc is energy / maximum_energy.
C1_SolveKeepsEnergyInBounds ==
    last.op = "solve" =>
        /\ RLe(battery.minimum_energy, battery.energy)
        /\ RLe(battery.energy, battery.maximum_energy)
        /\ battery.soc = RDiv(battery.energy, battery.maximum_energy)

\* a solve call whose charge was clamped at maximum_energy and left a new SOC
C1_Witness ==
    /\ last.op = "solve"
    /\ RGt(last.power, Zero)
    /\ RLt(last.ret, last.power)
    /\ RLt(last.before, battery.energy)
    /\ battery.energy = battery.maximum_energy

\* C10: the power Battery.solve returns is exactly the power the store
\* absorbed or delivered: energy_after - energy_before equals
\* returned_power * dt / 3600 * efficiency, also when the call clamps.
C10_ReturnedPowerIsAbsorbedPower ==
    last.op = "solve" =>
        RSub(battery.energy, last.before) =
            RMul(naive_energy(last.ret, last.dt, R(Timebase, 1)), battery.efficiency)

----------------------------------------------------------------------------
(* A battery driven through its two primitives, _charge and _discharge,    *)
(* in any order.                                                           *)

NoOrigin == <<>>

InitBattery ==
    /\ battery \in Batteries
    /\ boat = NoBoat
    /\ last = [ op |-> "init" ]
    /\ out = NoOut
    /\ comp = NoComp

Charge(dt, power) ==
    \E r \in { Battery_charge(battery, dt, power) } :
        /\ battery' = r.b
        /\ last' = [ op |-> "charge", dt |-> dt, power |-> power,
                     before |-> battery.energy, ret |-> r.ret,
                     origin |-> NoOrigin ]
        /\ UNCHANGED <<boat, out, comp>>

\* last.origin records, for a discharge of exactly the power the preceding
\* charge returned over the same dt, the energy stored before that charge
Discharge(dt, power) ==
    \E r \in { Battery_discharge(battery, dt, power) } :
        /\ battery' = r.b
        /\ last' = [ op |-> "discharge", dt |-> dt, power |-> power,
                     before |-> battery.energy, ret |-> r.ret,
                     origin |-> IF /\ last.op = "charge"
                                   /\ last.dt = dt
                                   /\ last.ret = power
                                THEN last.before ELSE NoOrigin ]
        /\ UNCHANGED <<boat, out, comp>>

NextBattery ==
    \/ \E dt \in Dts, p \in Powers : Charge(dt, p)
    \/ \E dt \in Dts, p \in Powers : Discharge(dt, p)

SpecBattery == InitBattery /\ [][NextBattery]_vars

(* The round trip: one charge of a battery in any state within its bounds, *)
(* then one discharge, over the same dt, of the power the charge returned.  *)

NextRoundTrip ==
    \/ /\ last.op = "init"
       /\ \E dt \in Dts, p \in Powers : Charge(dt, p)
    \/ /\ last.op = "charge"
       /\ Discharge(last.dt, last.ret)

SpecRoundTrip == InitBattery /\ [][NextRoundTrip]_vars

\* the energy a charge or discharge of last.power over last.dt moves
LastEnergy == RMul(naive_energy(last.power, last.dt, R(Timebase, 1)), battery.efficiency)

\* C2: a charge whose power would push the energy above maximum_energy
\* returns a power strictly less than requested and leaves energy equal to
\* maximum_energy.
C2_ChargeClampsAtMaximum ==
    (last.op = "charge" /\ RGt(RAdd(last.before, LastEnergy), battery.maximum_energy)) =>
        /\ RLt(last.ret, last.power)
        /\ battery.energy = battery.maximum_energy

\* a clamped charge that started below maximum_energy
C2_Witness ==
    /\ last.op = "charge"
    /\ RGt(RAdd(last.before, LastEnergy), battery.maximum_energy)
    /\ RLt(last.before, battery.maximum_energy)

\* C3: a discharge whose power would push the energy below minimum_energy
\* returns a power strictly less than requested and leaves energy equal to
\* minimum_energy.
C3_DischargeClampsAtMinimum ==
    (last.op = "discharge" /\ RLt(RSub(last.before, LastEnergy), battery.minimum_energy)) =>
        /\ RLt(last.ret, last.power)
        /\ battery.energy = battery.minimum_energy

\* a clamped discharge that started above minimum_energy
C3_Witness ==
    /\ last.op = "discharge"
    /\ RLt(RSub(last.before, LastEnergy), battery.minimum_energy)
    /\ RGt(last.before, battery.minimum_energy)

\* C6: charging with a power, then discharging over the same dt with the
\* power the charge returned, leaves the stored energy no higher than it was
\* before the charge.
C6_RoundTripCreatesNoEnergy ==
    (last.op = "discharge" /\ last.origin # NoOrigin) =>
        RLe(battery.energy, last.origin)

\* a round trip whose charge was clamped and that lost energy
C6_Witness ==
    /\ last.op = "discharge"
    /\ last.origin # NoOrigin
    /\ last.before = battery.maximum_energy
    /\ RLt(last.origin, last.before)
    /\ RLt(battery.energy, last.origin)

\* a round trip without any clamp, which returns to the original energy
C6_WitnessExact ==
    /\ last.op = "discharge"
    /\ last.origin # NoOrigin
    /\ RLt(last.before, battery.maximum_energy)
    /\ RLt(last.origin, last.before)
    /\ battery.energy = last.origin

----------------------------------------------------------------------------
(* Panel, ESC, Motor, Propulsion, Hull                                     *)

\* solve_output without the clamp at maximum_output_power
Panel_solve_output_noclamp(panel, irradiation) ==
    RMul(RMul(irradiation, panel.area), panel.efficiency)

\* Panel.solve_output
Panel_solve_output(panel, irradiation) ==
    LET input_power  == RMul(irradiation, panel.area)
        output_power == RMul(input_power, panel.efficiency)
    IN  IF RGt(output_power, panel.maximum_output_power)
        THEN panel.maximum_output_power
        ELSE output_power

\* np.clip(a, a_min, a_max)
np_clip(a, a_min, a_max) ==
    IF RLt(a, a_min) THEN a_min ELSE IF RGt(a, a_max) THEN a_max ELSE a

\* ESC.solve_input
ESC_solve_input(esc, throttle) ==
    LET input_power == RMul(np_clip(throttle, R(0, 1), R(1, 1)), esc.maximum_input_power)
    IN  IF RGt(input_power, esc.maximum_input_power)
        THEN esc.maximum_input_power
        ELSE input_power

\* ESC.solve_output
ESC_solve_output(esc, input_power) == RMul(input_power, esc.efficiency)

\* Motor.solve_input
Motor_solve_input(motor, input_power) ==
    IF RGt(input_power, motor.maximum_input_power)
    THEN motor.maximum_input_power
    ELSE input_power

\* Motor.solve_output
Motor_solve_output(motor, input_power) == RMul(input_power, motor.efficiency)

\* Propulsion.solve_input
Propulsion_solve_input(propulsion, input_power) ==
    IF RGt(input_power, propulsion.maximum_input_power)
    THEN propulsion.maximum_input_power
    ELSE input_power

\* Propulsion.solve_output
Propulsion_solve_output(propulsion, input_power) ==
    RMul(input_power, propulsion.efficiency)

\* Hull.solve_output
Hull_solve_output(hull, propulsion_power) ==
    RMul(propulsion_power, hull.speed_over_power_constant)

----------------------------------------------------------------------------
(* Boat.run                                                                 *)

\* step #3 without the clamp at the target PV power
Boat_run_pv_noclamp(actual_battery_power, target_esc_input_power, actual_circuits_input_power, target_pv_output_power) ==
    RAdd(RAdd(actual_battery_power, target_esc_input_power),
         actual_circuits_input_power)

\* Boat.run, step #3 - solve for pv
Boat_run_pv(actual_battery_power, target_esc_input_power, actual_circuits_input_power, target_pv_output_power) ==
    LET actual_pv_output_power ==
            RAdd(RAdd(actual_battery_power, target_esc_input_power),
                 actual_circuits_input_power)
    IN  IF RGt(actual_pv_output_power, target_pv_output_power)
        THEN target_pv_output_power
        ELSE actual_pv_output_power

\* Boat.run, step #4 - solve for motor
Boat_run_esc(actual_pv_output_power, actual_battery_power, actual_circuits_input_power, target_esc_input_power) ==
    LET actual_esc_input_power ==
            RSub(RSub(actual_pv_output_power, actual_battery_power),
                 actual_circuits_input_power)
    IN  IF RGt(actual_esc_input_power, target_esc_input_power)
        THEN target_esc_input_power
        ELSE actual_esc_input_power

\* Boat.run, step #1 - the targets, top-down
Boat_run_targets(bt, irradiation, motor_throttle) ==
    LET target_circuits_input_power == bt.circuits.power
        target_pv_output_power == Panel_solve_output(bt.panel, irradiation)
        target_esc_input_power ==
            Propulsion_solve_input(bt.propulsion,
                Motor_solve_input(bt.motor,
                    ESC_solve_input(bt.esc, motor_throttle)))
    IN  [ target_circuits_input_power |-> target_circuits_input_power,
          target_pv_output_power      |-> target_pv_output_power,
          target_esc_input_power      |-> target_esc_input_power,
          target_battery_power        |->
              RSub(RSub(target_pv_output_power, target_esc_input_power),
                   target_circuits_input_power) ]

\* Boat.run, step #1 (battery.solve) and step #2: t are the targets
Boat_run_battery(b, dt, t) ==
    LET solved == Battery_solve(b, dt, t.target_battery_power)
    IN  [ b   |-> solved.b,
          loc |-> t @@ [ actual_battery_power        |-> solved.ret,
                         actual_circuits_input_power |-> t.target_circuits_input_power ] ]

\* Boat.run, steps #3 and #4: s.loc are the values computed so far
Boat_run_actual(s) ==
    LET actual_pv_output_power ==
            Boat_run_pv(s.loc.actual_battery_power, s.loc.target_esc_input_power,
                        s.loc.actual_circuits_input_power, s.loc.target_pv_output_power)
    IN  [ b   |-> s.b,
          loc |-> s.loc @@
              [ actual_pv_output_power |-> actual_pv_output_power,
                actual_esc_input_power |->
                    Boat_run_esc(actual_pv_output_power, s.loc.actual_battery_power,
                                 s.loc.actual_circuits_input_power,
                                 s.loc.target_esc_input_power) ] ]

\* Boat.run, step #5 - propagate the power that moves the boat
Boat_run_propagate(bt, s) ==
    LET actual_esc_output_power ==
            ESC_solve_output(bt.esc, s.loc.actual_esc_input_power)
        actual_motor_output_power ==
            Motor_solve_output(bt.motor, actual_esc_output_power)
        actual_propulsive_output_power ==
            Propulsion_solve_output(bt.propulsion, actual_motor_output_power)
        actual_hull_speed == Hull_solve_output(bt.hull, actual_propulsive_output_power)
    IN  [ b   |-> s.b,
          loc |-> s.loc @@
              [ actual_esc_output_power        |-> actual_esc_output_power,
                actual_motor_output_power      |-> actual_motor_output_power,
                actual_propulsive_output_power |-> actual_propulsive_output_power,
                actual_hull_speed              |-> actual_hull_speed ] ]

\* Boat.run, the BoatOutputData record it returns
Boat_run_output(s, motor_throttle) ==
    [ b   |-> s.b,
      loc |-> s.loc,
      out |-> [ pv_output_power         |-> s.loc.actual_pv_output_power,
                battery_stored_energy   |-> s.b.energy,
                battery_soc             |-> s.b.soc,
                battery_output_power    |-> s.loc.actual_battery_power,
                esc_input_power         |-> s.loc.actual_esc_input_power,
                esc_output_power        |-> s.loc.actual_esc_output_power,
                motor_output_power      |-> s.loc.actual_esc_output_power,
                propulsive_output_power |-> s.loc.actual_propulsive_output_power,
                hull_speed              |-> s.loc.actual_hull_speed,
                pv_target_power         |-> s.loc.target_pv_output_power,
                esc_target_power        |-> s.loc.target_battery_power,
                battery_target_power    |-> s.loc.target_esc_input_power,
                motor_target_throttle   |-> motor_throttle ] ]

\* Boat.run: the battery after the call (b), the values the solver computed
\* (loc) and the BoatOutputData record it returns (out)
Boat_run(bt, b, dt, irradiation, motor_throttle) ==
    Only({ Boat_run_output(s5, motor_throttle) : s5 \in
         { Boat_run_propagate(bt, s4) : s4 \in
         { Boat_run_actual(s2) : s2 \in
         { Boat_run_battery(b, dt, t) : t \in
         { Boat_run_targets(bt, irradiation, motor_throttle) } } } } })

----------------------------------------------------------------------------
(* A boat driven through Boat.run.                                          *)

Irradiations == { R(-1, 1), R(0, 1), R(2, 1), R(6, 1) }
Throttles    == { R(-1, 2), R(0, 1), R(1, 2), R(3, 2) }

Panels ==
    { [ efficiency |-> e, area |-> a, maximum_output_power |-> m ] :
        e \in { R(1, 4), R(1, 2), R(1, 1) },
        a \in { R(1, 1), R(2, 1), R(4, 1) },
        m \in { R(0, 1), R(3, 1), R(4, 1) } }

Boats ==
    { [ panel      |-> [ efficiency |-> R(1, 2), area |-> R(2, 1),
                         maximum_output_power |-> R(4, 1) ],
        circuits   |-> [ power |-> c ],
        esc        |-> [ efficiency |-> R(3, 4), maximum_input_power |-> R(6, 1) ],
        motor      |-> [ efficiency |-> R(1, 2), maximum_input_power |-> R(4, 1) ],
        propulsion |-> [ efficiency |-> R(1, 2), maximum_input_power |-> R(5, 1) ],
        hull       |-> [ speed_over_power_constant |-> R(1, 2) ] ] :
        c \in { R(0, 1), R(1, 1) } }

BoatBatteries ==
    { Battery_init(s, R(1, 5), e, R(10, 1), R(500, 1)) :
        s \in { R(1, 5), R(1, 1) }, e \in { R(1, 2), R(1, 1) } }

InitBoat ==
    /\ boat \in Boats
    /\ battery \in BoatBatteries
    /\ last = [ op |-> "init" ]
    /\ out = NoOut
    /\ comp = NoComp

Run(dt, irradiation, motor_throttle) ==
    \E r \in { Boat_run(boat, battery, dt, irradiation, motor_throttle) } :
        /\ battery' = r.b
        /\ out' = r.out
        /\ last' = [ op |-> "run", dt |-> dt, irradiation |-> irradiation,
                     motor_throttle |-> motor_throttle,
                     before |-> battery.energy, loc |-> r.loc ]
        /\ UNCHANGED <<boat, comp>>

NextBoat == \E dt \in Dts, i \in Irradiations, t \in Throttles : Run(dt, i, t)

SpecBoat == InitBoat /\ [][NextBoat]_vars

\* C4: for every Boat.run call the actual ESC input power is at most the
\* step-1 target ESC input power and the actual PV output power is at most
\* the target PV output power.
C4_ActualAtMostTarget ==
    last.op = "run" =>
        /\ RLe(last.loc.actual_esc_input_power, last.loc.target_esc_input_power)
        /\ RLe(last.loc.actual_pv_output_power, last.loc.target_pv_output_power)

\* a run whose discharge was clamped at minimum_energy: the battery delivers
\* less than asked, the PV power is held at its target and the ESC gets less
\* than its target
C4_Witness ==
    /\ last.op = "run"
    /\ RLt(last.loc.target_battery_power, last.loc.actual_battery_power)
    /\ battery.energy = battery.minimum_energy
    /\ last.loc.actual_pv_output_power = last.loc.target_pv_output_power
    /\ RLt(last.loc.actual_esc_input_power, last.loc.target_esc_input_power)

\* C9: every field of the telemetry record Boat.run returns holds the value
\* the solver computed for the stage the field names.
C9_TelemetryFieldsHoldTheirStage ==
    last.op = "run" =>
        /\ out.esc_target_power = last.loc.target_esc_input_power
        /\ out.battery_target_power = last.loc.target_battery_power
        /\ out.motor_output_power = last.loc.actual_motor_output_power
        /\ out.pv_target_power = last.loc.target_pv_output_power
        /\ out.pv_output_power = last.loc.actual_pv_output_power
        /\ out.battery_output_power = last.loc.actual_battery_power
        /\ out.esc_input_power = last.loc.actual_esc_input_power
        /\ out.esc_output_power = last.loc.actual_esc_output_power
        /\ out.propulsive_output_power = last.loc.actual_propulsive_output_power
        /\ out.hull_speed = last.loc.actual_hull_speed
        /\ out.motor_target_throttle = last.motor_throttle

----------------------------------------------------------------------------
(* Panel.solve_output applied to panels and irradiations drawn from sets.  *)

InitPanel ==
    /\ boat \in { [ panel |-> p ] : p \in Panels }
    /\ battery = [ none |-> TRUE ]
    /\ last = [ op |-> "init" ]
    /\ out = NoOut
    /\ comp = NoComp

SolveOutput(irradiation) ==
    /\ last' = [ op |-> "solve_output", irradiation |-> irradiation,
                 ret |-> Panel_solve_output(boat.panel, irradiation) ]
    /\ UNCHANGED <<boat, battery, out, comp>>

NextPanel == \E i \in Irradiations : SolveOutput(i)

SpecPanel == InitPanel /\ [][NextPanel]_vars

\* the unclipped product irradiation * area * efficiency of the last call
LastProduct == RMul(RMul(last.irradiation, boat.panel.area), boat.panel.efficiency)

\* C8 as stated: for every irradiation the returned power is the product
\* clipped to [0, maximum_output_power], so never below 0 and never above
\* maximum_output_power.
C8_OutputClippedToZeroAndMaximum ==
    last.op = "solve_output" =>
        /\ last.ret = np_clip(LastProduct, Zero, boat.panel.maximum_output_power)
        /\ RGe(last.ret, Zero)
        /\ RLe(last.ret, boat.panel.maximum_output_power)

\* C8 as amended: the returned power is the smaller of the product and
\* maximum_output_power, so never above maximum_output_power; it is not
\* below 0 when the irradiation is not negative, and it is the negative
\* product itself when the irradiation is negative.
C8_OutputClippedAtMaximumOnly ==
    last.op = "solve_output" =>
        /\ last.ret = IF RGt(LastProduct, boat.panel.maximum_output_power)
                      THEN boat.panel.maximum_output_power ELSE LastProduct
        /\ RLe(last.ret, boat.panel.maximum_output_power)
        /\ RGe(last.irradiation, Zero) => RGe(last.ret, Zero)
        /\ RLt(last.irradiation, Zero) => (last.ret = LastProduct /\ RLt(last.ret, Zero))

\* a call whose product exceeds maximum_output_power and is clipped to it
C8_Witness ==
    /\ last.op = "solve_output"
    /\ RGt(LastProduct, boat.panel.maximum_output_power)
    /\ last.ret = boat.panel.maximum_output_power

----------------------------------------------------------------------------
(* Competition.run                                                          *)
(*                                                                         *)
(* An instant is an integer tick: Timestamp(x).to_datetime64() names the   *)
(* same instant as x, and the code only compares instants.  An event is    *)
(* [start, end]; an input row is [time, irradiation].                      *)

\* _check_input that only checks the start of the input
Competition_check_input_startonly(input_data, competition_start, competition_end) ==
    IF input_data[1].time > competition_start THEN "ValueError" ELSE "ok"

\* Competition._check_input: "ValueError" when it raises, "ok" when it returns
Competition_check_input(input_data, competition_start, competition_end) ==
    IF input_data[1].time > competition_start
    THEN "ValueError"
    ELSE IF input_data[Len(input_data)].time < competition_end
         THEN "ValueError"
         ELSE "ok"

\* the selection with the end of the window left out
Competition_select_exclusive(input_data, start, end) ==
    LET InWindow(row) == row.time >= start /\ row.time < end
    IN  SelectSeq(input_data, InWindow)

\* input_data[(input_data.time >= start) & (input_data.time <= end)]
Competition_select(input_data, start, end) ==
    LET InWindow(row) == row.time >= start /\ row.time <= end
    IN  SelectSeq(input_data, InWindow)

\* the time step and the throttles of the event's energy controller
EventDt        == R(Timebase, 1)
EventThrottles == { R(0, 1), R(1, 1) }

Times == 0..MaxTime

Windows == { [ start |-> a, end |-> b ] : <<a, b>> \in { w \in Times \X Times : w[1] <= w[2] } }

\* one or two events, in any order
EventLists == { <<w>> : w \in Windows } \cup { <<v, w>> : v \in Windows, w \in Windows }

IrradiationAt(t) == IF t % 2 = 0 THEN R(6, 1) ELSE R(0, 1)

RECURSIVE SortedSeq(_)
\* the rows at the instants of T, in increasing time
SortedSeq(T) ==
    IF T = {} THEN <<>>
    ELSE LET m == CHOOSE x \in T : \A y \in T : x <= y
         IN  <<[ time |-> m, irradiation |-> IrradiationAt(m) ]>> \o SortedSeq(T \ {m})

InputDataSets == { SortedSeq(T) : T \in (SUBSET Times) \ {{}} }

CompBoat == CHOOSE bt \in Boats : bt.circuits.power = R(1, 1)

CompBattery == Battery_init(R(1, 2), R(1, 5), R(3, 4), R(10, 1), R(500, 1))

InitComp ==
    /\ boat = CompBoat
    /\ battery = CompBattery
    /\ last = [ op |-> "init" ]
    /\ out = NoOut
    /\ comp \in { [ pc |-> "start", events |-> ev, input_data |-> d,
                    selected |-> <<>>, i |-> 1, event_input_data |-> <<>>, row |-> 1,
                    calls |-> <<>>, results |-> <<>>, entry |-> CompBattery ] :
                  ev \in EventLists, d \in InputDataSets }

\* Competition.run up to the loop: the window, _check_input, the selection
CompetitionRun ==
    /\ comp.pc = "start"
    /\ LET competition_start == comp.events[1].start
           competition_end   == comp.events[Len(comp.events)].end
       IN  IF Competition_check_input(comp.input_data, competition_start,
                                      competition_end) = "ValueError"
           THEN comp' = [comp EXCEPT !.pc = "ValueError"]
           ELSE comp' = [comp EXCEPT
                    !.pc = "loop",
                    !.selected = Competition_select(comp.input_data,
                                                    competition_start, competition_end)]
    /\ UNCHANGED <<boat, battery, last, out>>

\* one iteration of the loop, up to the call of event.run
CallEvent ==
    /\ comp.pc = "loop"
    /\ comp.i <= Len(comp.events)
    /\ LET event == comp.events[comp.i]
           event_input_data == Competition_select(comp.selected, event.start, event.end)
       IN  comp' = [comp EXCEPT
               !.pc = "event",
               !.event_input_data = event_input_data,
               !.row = 1,
               !.calls = Append(@, [ event |-> comp.i,
                                     boat_input_data |-> event_input_data,
                                     battery |-> battery ])]
    /\ UNCHANGED <<boat, battery, last, out>>

\* event.run (lib/event_model.py, after section 4.6 of the specification):
\* one timestep, the controller's throttle and one Boat.run on the shared boat
EventStep ==
    /\ comp.pc = "event"
    /\ comp.row <= Len(comp.event_input_data)
    /\ \E throttle \in EventThrottles :
         \E r \in { Boat_run(boat, battery, EventDt,
                             comp.event_input_data[comp.row].irradiation, throttle) } :
            /\ battery' = r.b
            /\ out' = r.out
    /\ comp' = [comp EXCEPT !.row = @ + 1]
    /\ UNCHANGED <<boat, last>>

\* event.run returns and its result is appended
EventReturn ==
    /\ comp.pc = "event"
    /\ comp.row > Len(comp.event_input_data)
    /\ comp' = [comp EXCEPT
           !.pc = "loop",
           !.i = @ + 1,
           !.results = Append(@, [ event |-> comp.i,
                                   steps |-> Len(comp.event_input_data),
                                   battery |-> battery ])]
    /\ UNCHANGED <<boat, battery, last, out>>

\* return CompetitionResult(name, results)
CompetitionReturn ==
    /\ comp.pc = "loop"
    /\ comp.i > Len(comp.events)
    /\ comp' = [comp EXCEPT !.pc = "done"]
    /\ UNCHANGED <<boat, battery, last, out>>

NextComp ==
    \/ CompetitionRun
    \/ CallEvent
    \/ EventStep
    \/ EventReturn
    \/ CompetitionReturn

SpecComp == InitComp /\ [][NextComp]_vars

\* the window of the competition: the first event's start, the last event's end
CompetitionStart == comp.events[1].start
CompetitionEnd   == comp.events[Len(comp.events)].end

\* the input does not cover the window of the competition
NotCovered ==
    \/ comp.input_data[1].time > CompetitionStart
    \/ comp.input_data[Len(comp.input_data)].time < CompetitionEnd

\* C5: when the input's first timestamp is after the first event's start or
\* its last timestamp is before the last event's end, Competition.run fails
\* with a ValueError before any simulation runs: no event's run is invoked
\* and the battery's energy and soc are unchanged.
C5_UncoveredInputFailsBeforeAnyRun ==
    (comp.pc # "start" /\ NotCovered) =>
        /\ comp.pc = "ValueError"
        /\ comp.calls = <<>>
        /\ comp.results = <<>>
        /\ battery.energy = comp.entry.energy
        /\ battery.soc = comp.entry.soc

\* a run that failed only because the input ends before the last event's end
C5_Witness ==
    /\ comp.pc = "ValueError"
    /\ comp.input_data[1].time <= CompetitionStart
    /\ comp.input_data[Len(comp.input_data)].time < CompetitionEnd

\* the rows of the input whose time lies in [lo, hi], in the input's order
RowsWithin(lo, hi) ==
    LET Within(row) == lo <= row.time /\ row.time <= hi
    IN  SelectSeq(comp.input_data, Within)

\* the rows of the input whose time lies in [lo, hi] and in the window of
\* the competition
RowsWithinCompetition(lo, hi) ==
    LET Within(row) == /\ lo <= row.time /\ row.time <= hi
                       /\ CompetitionStart <= row.time /\ row.time <= CompetitionEnd
    IN  SelectSeq(comp.input_data, Within)

\* the event runs are invoked once each in the declared order, one result is
\* kept per finished event in that order, and each event starts with the
\* battery the previous one left
RunsInOrderOnOneBattery ==
    /\ \A j \in 1..Len(comp.calls) : comp.calls[j].event = j
    /\ \A j \in 1..Len(comp.results) : comp.results[j].event = j
    /\ Len(comp.calls) = Len(comp.results) + (IF comp.pc = "event" THEN 1 ELSE 0)
    /\ comp.pc = "done" => Len(comp.results) = Len(comp.events)
    /\ Len(comp.calls) >= 1 => comp.calls[1].battery = comp.entry
    /\ \A j \in 2..Len(comp.calls) : comp.calls[j].battery = comp.results[j - 1].battery
    /\ comp.pc \in {"loop", "done"} /\ Len(comp.results) >= 1 =>
           battery = comp.results[Len(comp.results)].battery

\* C7 as stated: on an input that covers the competition window, each
\* event's run is invoked exactly once, in the declared order, with exactly
\* the input rows whose time lies in [eventStart, eventEnd]; the result holds
\* one entry per event in that order and each event starts from the battery
\* state the previous event left.
C7_EachEventRunsOnItsWindow ==
    ~NotCovered =>
        /\ RunsInOrderOnOneBattery
        /\ \A j \in 1..Len(comp.calls) :
               comp.calls[j].boat_input_data =
                   RowsWithin(comp.events[j].start, comp.events[j].end)

\* C7 as amended: the rows an event's run gets are those whose time lies in
\* [eventStart, eventEnd] and also in the competition window [first event's
\* start, last event's end].
C7_EachEventRunsOnItsWindowInsideTheCompetition ==
    ~NotCovered =>
        /\ RunsInOrderOnOneBattery
        /\ \A j \in 1..Len(comp.calls) :
               comp.calls[j].boat_input_data =
                   RowsWithinCompetition(comp.events[j].start, comp.events[j].end)

\* a finished run of two consecutive events, each with rows of its own, on
\* an input with a row before the competition, that discharged the battery
C7_Witness ==
    /\ comp.pc = "done"
    /\ Len(comp.events) = 2
    /\ comp.events[1].end < comp.events[2].start
    /\ Len(comp.calls[1].boat_input_data) >= 1
    /\ Len(comp.calls[2].boat_input_data) >= 2
    /\ comp.input_data[1].time < CompetitionStart
    /\ comp.calls[2].battery # comp.entry
    /\ battery # comp.calls[2].battery

====
